---- MODULE Spec2Model ----
(***************************************************************************)
(* ACPI button driver (drivers/acpi/button.c): the lid switch state        *)
(* machine.  The platform has two lid devices; the driver binds at most one *)
(* of them at a time.  Modelled are its struct acpi_button (the            *)
(* tracker), the module parameters lid_init_state and lid_report_interval, *)
(* the input device it reports SW_LID to, and the operations of the driver *)
(* (module init, probe, remove, input open, notify, suspend, resume,       *)
(* parameter writes).                                                      *)
(*                                                                         *)
(* Time is the value ktime_get() returns, in units of the report interval  *)
(* parameter (milliseconds in the driver).  Every handler runs to          *)
(* completion at one clock value, which the handler draws as an input not  *)
(* earlier than the previous clock read.                                   *)
(*                                                                         *)
(* Besides the driver's state the model keeps a record of the most recent  *)
(* operation (op, inp, samp, dcall, ev, seen, wake, rep) and the time of    *)
(* the latest complement event (last_syn); the driver never reads them.    *)
(***************************************************************************)
EXTENDS Integers, Sequences, FiniteSets, TLC

\* ---------------------------------------------------------------- bounds
\* Largest clock value a handler can read.
MaxTime == 4
\* Largest value written to the lid_report_interval parameter.
MaxInterval == 2

\* ------------------------------------------------------- program constants
ACPI_BUTTON_LID_INIT_IGNORE == 0
ACPI_BUTTON_LID_INIT_OPEN == 1
ACPI_BUTTON_LID_INIT_METHOD == 2
ACPI_BUTTON_LID_INIT_DISABLED == 3
\* static long lid_init_state = -1: not resolved yet
LID_INIT_UNSET == -1
ACPI_BUTTON_NOTIFY_STATUS == 128
ENODEV == 19
EEXIST == 17
EINVAL == 22

\* lid_init_state_str[]: the parameter's names, indexed by policy + 1
lid_init_state_str == <<"ignore", "open", "method", "disabled">>

\* Notify values the firmware may send: the status change and another one.
NotifyEvents == {ACPI_BUTTON_NOTIFY_STATUS, ACPI_BUTTON_NOTIFY_STATUS + 1}

\* What evaluating _LID can give: -1 for a failed evaluation, else the
\* integer the method returned.
HwResults == {-1, 0, 1, 2}

\* The lid devices of the platform (ACPI devices with _HID PNP0C0D).
LidDevices == {1, 2}

\* Strings written to the lid_init_state parameter.
ParamInputs == {"ignore", "open", "method", "disabled", "bogus"}

\* C's !x and !!x on an int
\* The two handlers that can run at the same time on one lid device: a
\* notification, and an input open or a resume; and where one can stand.
Handlers == {"notify", "reset"}
PcLabels == {"idle", "stamp", "sample", "report", "store_state",
             "store_time", "finish"}

LNot(x) == IF x = 0 THEN 1 ELSE 0
Bang2(x) == IF x # 0 THEN 1 ELSE 0

VARIABLES
    lid_init_state,         \* static long lid_init_state
    lid_report_interval,    \* static unsigned long lid_report_interval
    acpi_disabled,          \* the kernel runs with ACPI disabled
    loaded,                 \* acpi_button_register_driver has run
    button_exists,          \* a struct acpi_button for a lid device exists
    owner,                  \* the lid device it is bound to (0 = none)
    last_state,             \* button->last_state
    last_time,              \* button->last_time
    suspended,              \* button->suspended
    lid_state_initialized,  \* button->lid_state_initialized
    sw,                     \* SW_LID bit of button->input (1 = closed)
    lid_device,             \* static struct acpi_device *lid_device (0 = NULL)
    acpi_button_dir,        \* /proc/acpi/button exists
    now,                    \* value of the latest ktime_get()
    op,                     \* the most recent operation
    inp,                    \* its inputs
    samp,                   \* results of acpi_lid_evaluate_state in it, in order
    dcall,                  \* calls of acpi_lid_notify_state in it, with the tracker at entry
    ev,                     \* values handed to input_report_switch in it, in order
    seen,                   \* those of ev the input device passed on to its consumers
    wake,                   \* number of acpi_pm_wakeup_event calls in it
    rep,                    \* it is a notification that repeats the preceding notification's state
    last_syn,               \* time of the latest complement event, while lid_report_interval is not written and the time is within lid_report_interval of it (-1 = none)
    pc,                     \* where each of two concurrent handlers stands ("idle" = not running)
    loc                     \* the local variable state of each of them

vars == <<lid_init_state, lid_report_interval, acpi_disabled, loaded,
          button_exists, last_state, last_time, suspended,
          lid_state_initialized, sw, lid_device, acpi_button_dir, now,
          op, inp, samp, dcall, ev, seen, wake, rep, owner, last_syn,
          pc, loc>>

tracker == <<last_state, last_time, suspended, lid_state_initialized>>
params == <<lid_init_state, lid_report_interval>>
module == <<acpi_disabled, loaded>>
device == <<button_exists, owner, lid_device, acpi_button_dir>>
history == <<op, inp, samp, dcall, ev, seen, wake, rep, last_syn>>
handlers == <<pc, loc>>

\* The record of an operation's inputs: the notify value, the string written
\* to a parameter, the platform, the device, whether a step of probe fails,
\* the value returned, the value acpi_lid_update_state returned, and the
\* policy, the tracker, the input device and last_syn the operation found.
NoInput ==
    [event |-> 0, val |-> "", plat |-> 0, dev |-> 0, fail |-> FALSE,
     ret |-> 0, uret |-> 0,
     old |-> lid_init_state, was_init |-> lid_state_initialized,
     pre_state |-> last_state, pre_time |-> last_time,
     had_button |-> button_exists, pre_sw |-> sw, prev_syn |-> last_syn]

\* ------------------------------------------------------------ quirk table
\* dmi_lid_quirks[]: the DMI strings each entry matches ("" = the entry
\* does not match on that field) and its driver_data.
dmi_lid_quirks == <<
    [vendor |-> "Insyde", product |-> "T701",
     bios |-> "BYT70A.YNCHENG.WIN.007",
     driver_data |-> ACPI_BUTTON_LID_INIT_DISABLED],
    [vendor |-> "Insyde", product |-> "CherryTrail", bios |-> "M882",
     driver_data |-> ACPI_BUTTON_LID_INIT_DISABLED],
    [vendor |-> "LENOVO", product |-> "82BG", bios |-> "",
     driver_data |-> ACPI_BUTTON_LID_INIT_OPEN],
    [vendor |-> "MEDION", product |-> "E2215T", bios |-> "",
     driver_data |-> ACPI_BUTTON_LID_INIT_OPEN],
    [vendor |-> "MEDION", product |-> "E2228T", bios |-> "",
     driver_data |-> ACPI_BUTTON_LID_INIT_OPEN],
    [vendor |-> "Razer", product |-> "Razer Blade Stealth 13 Late 2019",
     bios |-> "",
     driver_data |-> ACPI_BUTTON_LID_INIT_OPEN] >>

\* Platform signatures the module can be loaded on.  A DMI field is given as
\* the set of table strings it matches.  1: no entry matches; 2: the Lenovo
\* entry; 3: the CherryTrail entry; 4: vendor and product of the T701 entry
\* but another firmware version; 5: both the T701 entry and the Lenovo entry.
Platforms == <<
    [vendor |-> {"Generic"}, product |-> {"Laptop"}, bios |-> {"1.0"}],
    [vendor |-> {"LENOVO"}, product |-> {"82BG"}, bios |-> {"1.0"}],
    [vendor |-> {"Insyde"}, product |-> {"CherryTrail"}, bios |-> {"M882"}],
    [vendor |-> {"Insyde"}, product |-> {"T701"}, bios |-> {"1.0"}],
    [vendor |-> {"Insyde", "LENOVO"}, product |-> {"T701", "82BG"},
     bios |-> {"BYT70A.YNCHENG.WIN.007"}] >>

\* One table entry against the platform: every field the entry names matches.
dmi_matches(e, plat) ==
    /\ e.vendor \in plat.vendor
    /\ e.product \in plat.product
    /\ (e.bios = "" \/ e.bios \in plat.bios)

\* dmi_first_match(): index of the first matching entry in table order, 0 if none.
dmi_first_match(table, plat) ==
    LET hits == {i \in 1..Len(table) : dmi_matches(table[i], plat)}
    IN IF hits = {} THEN 0
       ELSE CHOOSE i \in hits : \A j \in hits : i <= j

\* A variant that consults the quirk table even when the parameter was set.
ResolvePolicy_always_lookup(cur, plat) ==
    LET dmi_id == dmi_first_match(dmi_lid_quirks, plat)
    IN IF dmi_id # 0 THEN dmi_lid_quirks[dmi_id].driver_data
       ELSE ACPI_BUTTON_LID_INIT_METHOD

\* acpi_button_register_driver(): the value of lid_init_state it leaves.
ResolvePolicy(cur, plat) ==
    IF cur = LID_INIT_UNSET
    THEN LET dmi_id == dmi_first_match(dmi_lid_quirks, plat)
         IN IF dmi_id # 0 THEN dmi_lid_quirks[dmi_id].driver_data
            ELSE ACPI_BUTTON_LID_INIT_METHOD
    ELSE cur

\* sysfs_match_string(lid_init_state_str, val): index of val (from 0), or -EINVAL
sysfs_match_string(array, val) ==
    IF \E i \in 1..Len(array) : array[i] = val
    THEN (CHOOSE i \in 1..Len(array) : array[i] = val) - 1
    ELSE -EINVAL

\* ------------------------------------------------------------- event sink
\* input_report_switch(input, SW_LID, v) followed by input_sync(): the input
\* device passes v on only when it differs from its SW_LID bit.
input_report_switch(bit, v) ==
    IF Bang2(v) # bit THEN [sw |-> Bang2(v), seen |-> <<v>>]
    ELSE [sw |-> bit, seen |-> <<>>]

RECURSIVE ReportAll(_, _)
ReportAll(bit, events) ==
    IF events = <<>> THEN [sw |-> bit, seen |-> <<>>]
    ELSE LET first == input_report_switch(bit, Head(events))
             rest == ReportAll(first.sw, Tail(events))
         IN [sw |-> rest.sw, seen |-> first.seen \o rest.seen]

\* --------------------------------------------------------- hardware sample
\* acpi_lid_evaluate_state(): -ENODEV when evaluating _LID failed, else 0 or 1.
acpi_lid_evaluate_state(hw) ==
    IF hw < 0 THEN -ENODEV ELSE IF hw # 0 THEN 1 ELSE 0

\* One value of HwResults for each result acpi_lid_evaluate_state can give:
\* the handlers read _LID through acpi_lid_evaluate_state only.
HwClasses ==
    {CHOOSE hw \in HwResults : acpi_lid_evaluate_state(hw) = s :
        s \in {acpi_lid_evaluate_state(hw) : hw \in HwResults}}

\* What the evaluation of _LID inside acpi_lid_initialize_state can give: the
\* method is evaluated there under ACPI_BUTTON_LID_INIT_METHOD only.
InitSamples(policy) ==
    IF policy = ACPI_BUTTON_LID_INIT_METHOD THEN HwClasses ELSE {0}

\* ------------------------------------------------------- decision engine
\* The value input_report_switch carries for a lid state: SW_LID is set when
\* the lid is closed.
EvOpen == LNot(1)
EvClose == LNot(0)

\* Variants of the tests below, each with one plausible slip.
\* The transition test is dropped: only the policy decides.
lid_do_update_policy_only(ls, state, policy) ==
    policy # ACPI_BUTTON_LID_INIT_IGNORE

\* The policy test is dropped: a repeated state never updates at once.
lid_do_update_transition_only(ls, state, policy) ==
    ls # Bang2(state)

\* The interval test includes the boundary (>= for >).
lid_not_compliant_inclusive(ls, lt, state, interval, t) ==
    ls = Bang2(state) /\ t >= lt + interval

\* The complement event carries the value of the real event.
lid_complement_events_same(state, policy) ==
    IF policy = ACPI_BUTTON_LID_INIT_IGNORE /\ LNot(state) = 1
    THEN <<LNot(state)>> ELSE <<>>

\* The complement event is sent for "open" as well.
lid_complement_events_both(state, policy) ==
    IF policy = ACPI_BUTTON_LID_INIT_IGNORE
    THEN <<state>> ELSE <<>>

\* A variant that compares with last_time alone.
lid_not_compliant_no_interval(ls, lt, state, interval, t) ==
    ls = Bang2(state) /\ t > lt

\* A variant that reports no complement event.
lid_complement_events_none(state, policy) ==
    <<>>

\* A variant without the test of the policy.
lid_complement_events_any_policy(state, policy) ==
    IF LNot(state) = 1 THEN <<state>> ELSE <<>>

\* acpi_lid_notify_state(), first test: do_update before the interval check.
lid_do_update(ls, state, policy) ==
    policy # ACPI_BUTTON_LID_INIT_IGNORE \/ ls # Bang2(state)

\* acpi_lid_notify_state(), second test: the state repeats and the report
\* interval has passed since last_time.
lid_not_compliant(ls, lt, state, interval, t) ==
    ls = Bang2(state) /\ t > lt + interval

\* acpi_lid_notify_state(), the complement switch event: the value handed to
\* input_report_switch before the real event, if any.
lid_complement_events(state, policy) ==
    IF policy = ACPI_BUTTON_LID_INIT_IGNORE /\ LNot(state) = 1
    THEN <<state>> ELSE <<>>

\* A variant that reports without storing the state in last_state.
acpi_lid_notify_state_stale(ls, lt, state, policy, interval, t) ==
    LET fire == lid_not_compliant(ls, lt, state, interval, t)
        do_update == \/ lid_do_update(ls, state, policy)
                     \/ (fire /\ policy = ACPI_BUTTON_LID_INIT_IGNORE)
        comp == IF fire THEN lid_complement_events(state, policy) ELSE <<>>
        real == IF do_update THEN <<LNot(state)>> ELSE <<>>
    IN [ev |-> comp \o real,
        last_state |-> ls,
        last_time |-> IF do_update THEN t ELSE lt,
        samp |-> <<>>,
        dcall |-> <<[state |-> state, last_state |-> ls, last_time |-> lt]>>,
        wake |-> 0,
        ret |-> 0]

\* acpi_lid_notify_state(button, state) at clock value t: the values reported
\* to the input device and the tracker it leaves.
acpi_lid_notify_state(ls, lt, state, policy, interval, t) ==
    LET fire == lid_not_compliant(ls, lt, state, interval, t)
        do_update == \/ lid_do_update(ls, state, policy)
                     \/ (fire /\ policy = ACPI_BUTTON_LID_INIT_IGNORE)
        comp == IF fire THEN lid_complement_events(state, policy) ELSE <<>>
        real == IF do_update THEN <<LNot(state)>> ELSE <<>>
    IN [ev |-> comp \o real,
        last_state |-> IF do_update THEN Bang2(state) ELSE ls,
        last_time |-> IF do_update THEN t ELSE lt,
        samp |-> <<>>,
        dcall |-> <<[state |-> state, last_state |-> ls, last_time |-> lt]>>,
        wake |-> 0,
        ret |-> 0]

\* A variant that signals a wakeup whatever signal_wakeup is.
acpi_lid_update_state_always_wakes(ls, lt, hw, signal_wakeup, policy, interval, t) ==
    LET state == acpi_lid_evaluate_state(hw)
        r == acpi_lid_notify_state(ls, lt, state, policy, interval, t)
    IN IF state < 0
       THEN [ev |-> <<>>, last_state |-> ls, last_time |-> lt,
             samp |-> <<state>>, dcall |-> <<>>, wake |-> 0, ret |-> state]
       ELSE [r EXCEPT !.samp = <<state>>,
                      !.wake = IF state # 0 THEN 1 ELSE 0]

\* A variant without the test of the sample.
acpi_lid_update_state_unchecked(ls, lt, hw, signal_wakeup, policy, interval, t) ==
    LET state == acpi_lid_evaluate_state(hw)
        r == acpi_lid_notify_state(ls, lt, state, policy, interval, t)
    IN [r EXCEPT !.samp = <<state>>,
                 !.wake = IF state # 0 /\ signal_wakeup THEN 1 ELSE 0]

\* acpi_lid_update_state(button, signal_wakeup) when _LID evaluates to hw.
acpi_lid_update_state(ls, lt, hw, signal_wakeup, policy, interval, t) ==
    LET state == acpi_lid_evaluate_state(hw)
        r == acpi_lid_notify_state(ls, lt, state, policy, interval, t)
    IN IF state < 0
       THEN [ev |-> <<>>, last_state |-> ls, last_time |-> lt,
             samp |-> <<state>>, dcall |-> <<>>, wake |-> 0, ret |-> state]
       ELSE [r EXCEPT !.samp = <<state>>,
                      !.wake = IF state # 0 /\ signal_wakeup THEN 1 ELSE 0]

\* A variant that reports the stored sample under ACPI_BUTTON_LID_INIT_OPEN.
acpi_lid_initialize_state_open_as_sampled(ls, lt, hw, policy, interval, t) ==
    CASE policy = ACPI_BUTTON_LID_INIT_OPEN ->
            acpi_lid_notify_state(ls, lt, ls, policy, interval, t)
      [] policy = ACPI_BUTTON_LID_INIT_METHOD ->
            acpi_lid_update_state(ls, lt, hw, FALSE, policy, interval, t)
      [] OTHER ->
            [ev |-> <<>>, last_state |-> ls, last_time |-> lt,
             samp |-> <<>>, dcall |-> <<>>, wake |-> 0, ret |-> 0]

\* A variant without the ACPI_BUTTON_LID_INIT_OPEN case.
acpi_lid_initialize_state_no_open(ls, lt, hw, policy, interval, t) ==
    CASE policy = ACPI_BUTTON_LID_INIT_METHOD ->
            acpi_lid_update_state(ls, lt, hw, FALSE, policy, interval, t)
      [] OTHER ->
            [ev |-> <<>>, last_state |-> ls, last_time |-> lt,
             samp |-> <<>>, dcall |-> <<>>, wake |-> 0, ret |-> 0]

\* acpi_lid_initialize_state(button); hw is what _LID evaluates to if the
\* policy samples it.
acpi_lid_initialize_state(ls, lt, hw, policy, interval, t) ==
    CASE policy = ACPI_BUTTON_LID_INIT_OPEN ->
            acpi_lid_notify_state(ls, lt, 1, policy, interval, t)
      [] policy = ACPI_BUTTON_LID_INIT_METHOD ->
            acpi_lid_update_state(ls, lt, hw, FALSE, policy, interval, t)
      [] OTHER ->
            [ev |-> <<>>, last_state |-> ls, last_time |-> lt,
             samp |-> <<>>, dcall |-> <<>>, wake |-> 0, ret |-> 0]

\* A variant that stores the complement of the sample.
lid_reset_and_initialize_inverted(hw1, hw2, policy, interval, t) ==
    LET s1 == acpi_lid_evaluate_state(hw1)
        r == acpi_lid_initialize_state(LNot(s1), t, hw2, policy, interval, t)
    IN [r EXCEPT !.samp = <<s1>> \o r.samp]

\* acpi_lid_input_open() and the lid branch of acpi_button_resume(): take a
\* sample hw1 into last_state, stamp last_time, then initialize.
lid_reset_and_initialize(hw1, hw2, policy, interval, t) ==
    LET s1 == acpi_lid_evaluate_state(hw1)
        r == acpi_lid_initialize_state(Bang2(s1), t, hw2, policy, interval, t)
    IN [r EXCEPT !.samp = <<s1>> \o r.samp]

\* ------------------------------------------------------------------ state
TypeOK ==
    /\ lid_init_state \in LID_INIT_UNSET..ACPI_BUTTON_LID_INIT_DISABLED
    /\ lid_report_interval \in 0..MaxInterval
    /\ acpi_disabled \in BOOLEAN /\ loaded \in BOOLEAN
    /\ button_exists \in BOOLEAN
    /\ last_state \in 0..1 /\ last_time \in 0..MaxTime
    /\ suspended \in BOOLEAN /\ lid_state_initialized \in BOOLEAN
    /\ sw \in 0..1 /\ acpi_button_dir \in BOOLEAN
    /\ lid_device \in {0} \cup LidDevices /\ owner \in {0} \cup LidDevices
    /\ button_exists = (owner # 0)
    /\ last_syn \in -1..MaxTime
    /\ pc \in [Handlers -> PcLabels] /\ loc \in [Handlers -> 0..1]
    /\ now \in 0..MaxTime
    /\ wake \in 0..1 /\ rep \in BOOLEAN
    /\ Len(ev) <= 2 /\ Len(seen) <= Len(ev) /\ Len(samp) <= 2 /\ Len(dcall) <= 1

\* The module before its init function has run: the statics as initialized,
\* lid_report_interval as given when the module is loaded, no device bound.
Init ==
    /\ lid_init_state = LID_INIT_UNSET
    /\ lid_report_interval \in 0..MaxInterval
    /\ acpi_disabled \in BOOLEAN
    /\ loaded = FALSE
    /\ button_exists = FALSE
    /\ last_state = 0 /\ last_time = 0
    /\ suspended = FALSE /\ lid_state_initialized = FALSE
    /\ sw = 0
    /\ lid_device = 0
    /\ acpi_button_dir = FALSE
    /\ now = 0
    /\ op = "none"
    /\ inp = [event |-> 0, val |-> "", plat |-> 0, dev |-> 0, fail |-> FALSE,
              ret |-> 0, uret |-> 0,
              old |-> LID_INIT_UNSET, was_init |-> FALSE,
              pre_state |-> 0, pre_time |-> 0,
              had_button |-> FALSE, pre_sw |-> 0, prev_syn |-> -1]
    /\ owner = 0
    /\ last_syn = -1
    /\ pc = [h \in Handlers |-> "idle"] /\ loc = [h \in Handlers |-> 0]
    /\ samp = <<>> /\ dcall = <<>> /\ ev = <<>> /\ seen = <<>>
    /\ wake = 0 /\ rep = FALSE

\* An operation that reports nothing and samples nothing.
Quiet(name, input) ==
    /\ op' = name /\ inp' = input
    /\ samp' = <<>> /\ dcall' = <<>> /\ ev' = <<>> /\ seen' = <<>>
    /\ wake' = 0 /\ rep' = FALSE
    /\ UNCHANGED handlers

\* The tracker and the input device after a handler with result r.
Apply(name, input, r) ==
    /\ last_state' = r.last_state
    /\ last_time' = r.last_time
    /\ sw' = ReportAll(sw, r.ev).sw
    /\ seen' = ReportAll(sw, r.ev).seen
    /\ ev' = r.ev /\ samp' = r.samp /\ dcall' = r.dcall /\ wake' = r.wake
    /\ op' = name /\ inp' = [input EXCEPT !.uret = r.ret]
    /\ last_syn' = IF Len(r.ev) = 2 THEN now'
                 ELSE IF last_syn >= 0 /\ now' > last_syn + lid_report_interval
                 THEN -1
                 ELSE last_syn
    /\ UNCHANGED handlers

\* ------------------------------------------------------------- operations
\* A variant that stores the result of the lookup without testing it.
param_set_result_unchecked(cur, val) ==
    sysfs_match_string(lid_init_state_str, val)

\* param_set_lid_init_state(val): the value of lid_init_state it leaves.
param_set_result(cur, val) ==
    LET i == sysfs_match_string(lid_init_state_str, val)
    IN IF i < 0 THEN cur ELSE i

\* param_set_lid_init_state(val): a write to the lid_init_state parameter
\* (kernel command line before module init, sysfs afterwards).
param_set_lid_init_state ==
    \E val \in ParamInputs :
        LET i == sysfs_match_string(lid_init_state_str, val)
        IN /\ lid_init_state' = param_set_result(lid_init_state, val)
           /\ Quiet("param_set", [NoInput EXCEPT !.val = val, !.ret = IF i < 0 THEN i ELSE 0])
           /\ UNCHANGED <<lid_report_interval, module, device, tracker, sw, now,
                          last_syn>>

\* module_param(lid_report_interval, ulong, 0644): a write to the parameter.
param_set_lid_report_interval ==
    \E v \in 0..MaxInterval :
        /\ v # lid_report_interval
        /\ lid_report_interval' = v
        /\ last_syn' = -1
        /\ Quiet("param_interval", NoInput)
        /\ UNCHANGED <<lid_init_state, module, device, tracker, sw, now>>

\* acpi_button_register_driver(): module init, on one of the platforms.
acpi_button_register_driver ==
    \E p \in 1..Len(Platforms) :
        /\ ~loaded
        /\ loaded' = TRUE
        /\ lid_init_state' = ResolvePolicy(lid_init_state, Platforms[p])
        /\ Quiet("register", [NoInput EXCEPT !.plat = p])
        /\ UNCHANGED <<lid_report_interval, acpi_disabled, device, tracker, sw,
                       now, last_syn>>

\* A variant without the test of the policy.
probe_error_no_policy_test(policy, dir, fail) ==
    IF dir THEN -EEXIST
    ELSE IF fail THEN -ENODEV
    ELSE 0

\* acpi_button_probe(): the error it returns for the lid device, 0 when it
\* binds.  The policy is tested first, then acpi_button_add_fs() refuses a
\* second /proc/acpi/button, then the remaining steps may fail.
probe_error(policy, dir, fail) ==
    IF policy = ACPI_BUTTON_LID_INIT_DISABLED THEN -ENODEV
    ELSE IF dir THEN -EEXIST
    ELSE IF fail THEN -ENODEV
    ELSE 0

\* acpi_button_probe() for a lid device d the driver is not bound to; fail:
\* an allocation, the input registration or the handler installation fails.
\* On an error the button allocated for d is freed again, and the button of
\* the device already bound, if any, is not touched.
acpi_button_probe ==
    \E d \in LidDevices, fail \in BOOLEAN :
        /\ loaded /\ ~acpi_disabled /\ owner # d
        /\ LET error == probe_error(lid_init_state, acpi_button_dir, fail)
           IN /\ acpi_button_dir' = (acpi_button_dir \/ error = 0)
              /\ lid_device' = IF error = 0 THEN d ELSE lid_device
              /\ Quiet("probe", [NoInput EXCEPT !.ret = error, !.dev = d,
                                                !.fail = fail])
              /\ IF error = 0
                 THEN /\ button_exists' = TRUE /\ owner' = d
                      /\ last_state' = 0 /\ last_time' = 0
                      /\ suspended' = FALSE /\ lid_state_initialized' = FALSE
                      /\ sw' = 0
                 ELSE UNCHANGED <<button_exists, owner, tracker, sw>>
        /\ UNCHANGED <<params, module, now, last_syn>>

\* acpi_button_remove(): the button and its input device are freed; the
\* tracker variables fall back to their values without a device.
acpi_button_remove ==
    /\ button_exists
    /\ button_exists' = FALSE /\ owner' = 0
    /\ acpi_button_dir' = FALSE
    /\ last_state' = 0 /\ last_time' = 0
    /\ suspended' = FALSE /\ lid_state_initialized' = FALSE
    /\ sw' = 0
    /\ Quiet("remove", [NoInput EXCEPT !.dev = owner])
    /\ UNCHANGED <<params, module, lid_device, now, last_syn>>

\* acpi_lid_input_open(): a consumer opens the input device.
acpi_lid_input_open ==
    \E t \in now..MaxTime, hw1 \in HwClasses,
       hw2 \in InitSamples(lid_init_state) :
        /\ button_exists
        /\ now' = t
        /\ Apply("input_open", NoInput,
                 lid_reset_and_initialize(hw1, hw2, lid_init_state,
                                          lid_report_interval, t))
        /\ lid_state_initialized' = TRUE
        /\ rep' = FALSE
        /\ UNCHANGED <<params, module, device, suspended>>

\* A variant that also discards while the device is suspended.
lid_notify_discards_when_suspended(event, initialized) ==
    event # ACPI_BUTTON_NOTIFY_STATUS \/ ~initialized \/ suspended

\* A variant without the test of lid_state_initialized.
lid_notify_discards_event_only(event, initialized) ==
    event # ACPI_BUTTON_NOTIFY_STATUS

\* acpi_lid_notify(): the two early returns.
lid_notify_discards(event, initialized) ==
    event # ACPI_BUTTON_NOTIFY_STATUS \/ ~initialized

\* acpi_lid_notify(handle, event, button)
acpi_lid_notify ==
    \E event \in NotifyEvents :
        /\ button_exists
        /\ IF lid_notify_discards(event, lid_state_initialized)
           THEN /\ Quiet("notify", [NoInput EXCEPT !.event = event])
                /\ UNCHANGED <<last_state, last_time, sw, now, last_syn>>
           ELSE \E t \in now..MaxTime, hw \in HwClasses :
                LET r == acpi_lid_update_state(last_state, last_time, hw, TRUE,
                                               lid_init_state,
                                               lid_report_interval, t)
                IN /\ now' = t
                   /\ Apply("notify", [NoInput EXCEPT !.event = event, !.ret = r.ret], r)
                   /\ rep' = /\ op = "notify" /\ dcall # <<>> /\ r.dcall # <<>>
                             /\ dcall[1].state = r.dcall[1].state
        /\ UNCHANGED <<params, module, device, suspended, lid_state_initialized>>

\* acpi_button_suspend()
acpi_button_suspend ==
    /\ button_exists /\ ~suspended
    /\ suspended' = TRUE
    /\ Quiet("suspend", NoInput)
    /\ UNCHANGED <<params, module, device, last_state, last_time,
                   lid_state_initialized, sw, now, last_syn>>

\* acpi_button_resume() on the lid device
acpi_button_resume ==
    \E t \in now..MaxTime, hw1 \in HwClasses,
       hw2 \in InitSamples(lid_init_state) :
        /\ button_exists /\ suspended
        /\ now' = t
        /\ suspended' = FALSE
        /\ Apply("resume", NoInput,
                 lid_reset_and_initialize(hw1, hw2, lid_init_state,
                                          lid_report_interval, t))
        /\ lid_state_initialized' = TRUE
        /\ rep' = FALSE
        /\ UNCHANGED <<params, module, device>>

\* acpi_lid_open(): the value it returns when lid_device is dev and _LID of
\* that device evaluates to hw.
acpi_lid_open_result(dev, hw) ==
    IF dev = 0 THEN -ENODEV ELSE acpi_lid_evaluate_state(hw)

\* acpi_lid_open(): another driver asks for the lid state.  inp.dev is the
\* device whose _LID is evaluated, 0 if none is.
acpi_lid_open ==
    \E hw \in HwClasses :
        /\ loaded
        /\ op' = "lid_open"
        /\ inp' = [NoInput EXCEPT !.dev = lid_device,
                                  !.ret = acpi_lid_open_result(lid_device, hw)]
        /\ samp' = IF lid_device = 0 THEN <<>>
                   ELSE <<acpi_lid_evaluate_state(hw)>>
        /\ dcall' = <<>> /\ ev' = <<>> /\ seen' = <<>>
        /\ wake' = 0 /\ rep' = FALSE
        /\ UNCHANGED <<params, module, device, tracker, sw, now, last_syn,
                       handlers>>

Next ==
    \/ param_set_lid_init_state
    \/ param_set_lid_report_interval
    \/ acpi_button_register_driver
    \/ acpi_button_probe
    \/ acpi_button_remove
    \/ acpi_lid_input_open
    \/ acpi_lid_notify
    \/ acpi_button_suspend
    \/ acpi_button_resume
    \/ acpi_lid_open

Spec == Init /\ [][Next]_vars

\* ------------------------------------------- handlers running concurrently
\* The handlers above run to completion.  Below, a notification and an
\* input open or a resume of the same lid device advance one statement at a
\* time, under ACPI_BUTTON_LID_INIT_METHOD and with _LID always evaluating:
\* the driver takes no lock around the tracker.  Notifications come one
\* after another; so do input opens and resumes.

\* The values _LID can give when its evaluation succeeds.
GoodHw == {hw \in HwClasses : acpi_lid_evaluate_state(hw) >= 0}

\* A lid device bound and opened once under ACPI_BUTTON_LID_INIT_METHOD, no
\* handler running: the last event reported is the one for last_state.
InitInterleaved ==
    /\ lid_init_state = ACPI_BUTTON_LID_INIT_METHOD
    /\ lid_report_interval \in 0..MaxInterval
    /\ acpi_disabled = FALSE /\ loaded = TRUE
    /\ owner \in LidDevices /\ lid_device = owner
    /\ button_exists = TRUE /\ acpi_button_dir = TRUE
    /\ last_state \in 0..1 /\ sw = LNot(last_state)
    /\ last_time = 0 /\ now = 0
    /\ suspended = FALSE /\ lid_state_initialized = TRUE
    /\ op = "none"
    /\ inp = [event |-> 0, val |-> "", plat |-> 0, dev |-> 0, fail |-> FALSE,
              ret |-> 0, uret |-> 0,
              old |-> LID_INIT_UNSET, was_init |-> FALSE,
              pre_state |-> 0, pre_time |-> 0,
              had_button |-> FALSE, pre_sw |-> 0, prev_syn |-> -1]
    /\ last_syn = -1
    /\ samp = <<>> /\ dcall = <<>> /\ ev = <<>> /\ seen = <<>>
    /\ wake = 0 /\ rep = FALSE
    /\ pc = [h \in Handlers |-> "idle"] /\ loc = [h \in Handlers |-> 0]

\* Handler h moves from one statement to the next.
Goto(h, from, to) ==
    /\ pc[h] = from
    /\ pc' = [pc EXCEPT ![h] = to]

\* acpi_lid_notify() up to the call of acpi_lid_notify_state(): the event
\* and lid_state_initialized are tested and _LID is evaluated into state.
lid_notify_sample ==
    \E hw \in GoodHw :
        /\ button_exists
        /\ ~lid_notify_discards(ACPI_BUTTON_NOTIFY_STATUS,
                                lid_state_initialized)
        /\ Goto("notify", "idle", "report")
        /\ loc' = [loc EXCEPT !["notify"] = acpi_lid_evaluate_state(hw)]
        /\ UNCHANGED <<params, module, device, tracker, sw, now, history>>

\* acpi_lid_input_open(), first statement: last_state = !!(_LID).
acpi_lid_input_open_begin ==
    \E hw \in GoodHw :
        /\ button_exists
        /\ Goto("reset", "idle", "stamp")
        /\ last_state' = Bang2(acpi_lid_evaluate_state(hw))
        /\ UNCHANGED <<params, module, device, last_time, suspended,
                       lid_state_initialized, sw, now, history, loc>>

\* acpi_button_resume(), first statements: suspended = false and
\* last_state = !!(_LID).
acpi_button_resume_begin ==
    \E hw \in GoodHw :
        /\ button_exists /\ suspended
        /\ Goto("reset", "idle", "stamp")
        /\ suspended' = FALSE
        /\ last_state' = Bang2(acpi_lid_evaluate_state(hw))
        /\ UNCHANGED <<params, module, device, last_time,
                       lid_state_initialized, sw, now, history, loc>>

\* acpi_button_suspend(), while no input open and no resume is running.
acpi_button_suspend_begin ==
    /\ button_exists /\ ~suspended
    /\ pc["reset"] = "idle"
    /\ suspended' = TRUE
    /\ UNCHANGED <<params, module, device, last_state, last_time,
                   lid_state_initialized, sw, now, history, handlers>>

\* acpi_lid_input_open() and acpi_button_resume(), second statement:
\* last_time = ktime_get().
lid_reset_stamp ==
    \E t \in now..MaxTime :
        /\ Goto("reset", "stamp", "sample")
        /\ now' = t /\ last_time' = t
        /\ UNCHANGED <<params, module, device, last_state, suspended,
                       lid_state_initialized, sw, history, loc>>

\* acpi_lid_initialize_state() under ACPI_BUTTON_LID_INIT_METHOD, up to the
\* call of acpi_lid_notify_state(): _LID is evaluated into state.
lid_init_sample ==
    \E hw \in GoodHw :
        /\ lid_init_state = ACPI_BUTTON_LID_INIT_METHOD
        /\ Goto("reset", "sample", "report")
        /\ loc' = [loc EXCEPT !["reset"] = acpi_lid_evaluate_state(hw)]
        /\ UNCHANGED <<params, module, device, tracker, sw, now, history>>

\* acpi_lid_notify_state(): do_update is computed, and the real event is
\* reported if it is set.  The complement event belongs to
\* ACPI_BUTTON_LID_INIT_IGNORE alone.
lid_report ==
    \E h \in Handlers :
        LET do_update == lid_do_update(last_state, loc[h], lid_init_state)
        IN /\ lid_init_state # ACPI_BUTTON_LID_INIT_IGNORE
           /\ Goto(h, "report", IF do_update THEN "store_state"
                                ELSE IF h = "reset" THEN "finish" ELSE "idle")
           /\ sw' = IF do_update
                    THEN input_report_switch(sw, LNot(loc[h])).sw
                    ELSE sw
           /\ UNCHANGED <<params, module, device, tracker, now, history, loc>>

\* acpi_lid_notify_state(): button->last_state = !!state.
lid_store_state ==
    \E h \in Handlers :
        /\ Goto(h, "store_state", "store_time")
        /\ last_state' = Bang2(loc[h])
        /\ UNCHANGED <<params, module, device, last_time, suspended,
                       lid_state_initialized, sw, now, history, loc>>

\* acpi_lid_notify_state(): button->last_time = ktime_get(), and the return
\* to acpi_lid_notify() or to acpi_lid_initialize_state().
lid_store_time ==
    \E h \in Handlers, t \in now..MaxTime :
        /\ Goto(h, "store_time", IF h = "reset" THEN "finish" ELSE "idle")
        /\ now' = t /\ last_time' = t
        /\ UNCHANGED <<params, module, device, last_state, suspended,
                       lid_state_initialized, sw, history, loc>>

\* acpi_lid_initialize_state(), last statement: lid_state_initialized = true.
lid_init_finish ==
    /\ Goto("reset", "finish", "idle")
    /\ lid_state_initialized' = TRUE
    /\ UNCHANGED <<params, module, device, last_state, last_time, suspended,
                   sw, now, history, loc>>

NextInterleaved ==
    \/ lid_notify_sample
    \/ acpi_lid_input_open_begin
    \/ acpi_button_resume_begin
    \/ acpi_button_suspend_begin
    \/ lid_reset_stamp
    \/ lid_init_sample
    \/ lid_report
    \/ lid_store_state
    \/ lid_store_time
    \/ lid_init_finish

SpecInterleaved == InitInterleaved /\ [][NextInterleaved]_vars

\* No handler is running.
Quiescent == \A h \in Handlers : pc[h] = "idle"

\* ===================================================================
\* Properties
\* ===================================================================
\* The call of acpi_lid_notify_state made by the latest operation, if any.
Decided == dcall # <<>>
D == dcall[1]
Policy == lid_init_state
Ignore == ACPI_BUTTON_LID_INIT_IGNORE

\* C1: whenever acpi_lid_notify_state is called with a state different from
\* the tracker's last_state, under any policy, exactly one event is reported,
\* it is the event of that state (no complement event), and afterwards
\* last_state is that state and last_time the time of the call.
C1_TransitionReported ==
    (Decided /\ D.last_state # Bang2(D.state)) =>
        /\ ev = <<IF D.state = 1 THEN EvOpen ELSE EvClose>>
        /\ last_state = D.state
        /\ last_time = now

C1_Witness ==
    /\ Decided /\ op = "notify" /\ Policy = Ignore
    /\ D.last_state = 1 /\ D.state = 0 /\ ev = <<EvClose>>
    /\ now > D.last_time + lid_report_interval

\* C2 as stated: under Ignore, a closed sample on a closed tracker later than
\* last_time + interval reports two events, both Close, and leaves
\* last_time = now and last_state = closed.
C2_BothClose ==
    (Decided /\ Policy = Ignore /\ D.last_state = 0 /\ D.state = 0
     /\ now > D.last_time + lid_report_interval) =>
        /\ ev = <<EvClose, EvClose>>
        /\ last_time = now /\ last_state = 0

\* C2 amended: in that case two events are reported, the complement event
\* Open first and the real event Close second, and last_time = now and
\* last_state = closed afterwards.
C2_ComplementThenClose ==
    (Decided /\ Policy = Ignore /\ D.last_state = 0 /\ D.state = 0
     /\ now > D.last_time + lid_report_interval) =>
        /\ ev = <<EvOpen, EvClose>>
        /\ last_time = now /\ last_state = 0

C2_Witness ==
    /\ Decided /\ op = "notify" /\ Policy = Ignore
    /\ D.last_state = 0 /\ D.state = 0
    /\ lid_report_interval > 0
    /\ now = D.last_time + lid_report_interval + 1
    /\ Len(ev) = 2

\* C3: under Ignore, an open sample on an open tracker later than
\* last_time + interval reports exactly one event, Open, with no complement
\* event before it, and sets last_time = now.
C3_OpenNotCompensated ==
    (Decided /\ Policy = Ignore /\ D.last_state = 1 /\ D.state = 1
     /\ now > D.last_time + lid_report_interval) =>
        /\ ev = <<EvOpen>>
        /\ last_time = now /\ last_state = 1

C3_Witness ==
    /\ Decided /\ op = "notify" /\ Policy = Ignore
    /\ D.last_state = 1 /\ D.state = 1
    /\ lid_report_interval > 0
    /\ now > D.last_time + lid_report_interval
    /\ ev = <<EvOpen>>

\* The latest operation is the second of two notifications in a row that
\* sampled the same state, under TrustMethod, within the interval.
RepeatUnderMethod ==
    /\ op = "notify" /\ rep /\ Decided
    /\ Policy = ACPI_BUTTON_LID_INIT_METHOD
    /\ now <= D.last_time + lid_report_interval

\* C4 as stated: under TrustMethod the second of two calls in a row with the
\* same state, within the interval, reports no event and leaves last_state
\* and last_time unchanged.
C4_RepeatIsNoOp ==
    RepeatUnderMethod =>
        /\ ev = <<>>
        /\ last_state = D.last_state /\ last_time = D.last_time

\* C4 amended: that second call reports exactly one event, the real event of
\* the state (the input device, holding that value already, passes nothing
\* on), leaves last_state unchanged and sets last_time = now.
C4_RepeatReportsAgain ==
    RepeatUnderMethod =>
        /\ ev = <<LNot(D.state)>>
        /\ seen = <<>>
        /\ last_state = D.last_state /\ last_state = D.state
        /\ last_time = now

C4_Witness ==
    /\ RepeatUnderMethod
    /\ lid_report_interval > 0
    /\ now > D.last_time
    /\ Len(ev) = 1 /\ seen = <<>>

\* The scenario of C5 on the decision engine: interval 500, tracker closed
\* with last_time 0, closed samples at the given times.  The result of each
\* call, in order.
RECURSIVE RunClosedSamples(_, _, _)
RunClosedSamples(ls, lt, times) ==
    IF times = <<>> THEN <<>>
    ELSE LET r == acpi_lid_notify_state(ls, lt, 0, Ignore, 500, Head(times))
         IN <<r>> \o RunClosedSamples(r.last_state, r.last_time, Tail(times))

C5_Scenario ==
    LET r == RunClosedSamples(0, 0, <<100, 300, 600, 1100>>)
    IN /\ r[1].ev = <<>> /\ r[1].last_time = 0
       /\ r[2].ev = <<>> /\ r[2].last_time = 0
       /\ r[3].ev # <<>> /\ r[3].last_time = 600
       /\ r[4].ev = <<>> /\ r[4].last_time = 600

\* C5: under Ignore, a call whose state equals last_state at a time not after
\* last_time + interval (the boundary included) reports no event and leaves
\* last_state and last_time unchanged; and in the scenario interval = 500,
\* closed at 0, closed samples at 100, 300, 600, 1100, events are reported
\* only at 600 and last_time is 600 from then on.
C5_SuppressedWithinInterval ==
    /\ (Decided /\ Policy = Ignore /\ D.state = D.last_state
        /\ ~(now > D.last_time + lid_report_interval)) =>
            /\ ev = <<>> /\ seen = <<>>
            /\ last_state = D.last_state /\ last_time = D.last_time
    /\ C5_Scenario

C5_Witness ==
    /\ Decided /\ op = "notify" /\ Policy = Ignore
    /\ D.state = D.last_state
    /\ lid_report_interval > 0
    /\ now = D.last_time + lid_report_interval
    /\ ev = <<>> /\ last_time = D.last_time

\* The samples of the latest operation that succeeded.
GoodSamples == {samp[i] : i \in {j \in 1..Len(samp) : samp[j] >= 0}}

\* C6 as stated: after acpi_button_resume, last_time is the resume time,
\* last_state reflects the sample taken at resume, suspended is false,
\* initialized is true and the policy's initial event has been reported.
C6_ResumeReflectsSample ==
    op = "resume" =>
        /\ last_time = now /\ ~suspended /\ lid_state_initialized
        /\ (GoodSamples # {} => last_state \in GoodSamples)
        /\ (Policy = ACPI_BUTTON_LID_INIT_OPEN => ev = <<EvOpen>>)
        /\ (Policy = Ignore => ev = <<>>)

\* C6 amended: after acpi_button_resume, whatever the tracker held before,
\* last_time is the resume time, suspended is false, initialized is true,
\* and the initialization has run under the current policy: under AssumeOpen
\* one Open is reported and last_state is open whatever was sampled; under
\* TrustMethod, when the initialization's own sample succeeds, the event of
\* that sample is reported and last_state is that sample; in every other
\* case (Ignore, Disabled, TrustMethod with a failed second sample) nothing
\* is reported and last_state is the resume sample, a failed one read as open.
C6_ResumeResetsHistory ==
    op = "resume" =>
        /\ last_time = now /\ ~suspended /\ lid_state_initialized
        /\ Len(samp) >= 1
        /\ CASE Policy = ACPI_BUTTON_LID_INIT_OPEN ->
                    ev = <<EvOpen>> /\ last_state = 1
             [] Policy = ACPI_BUTTON_LID_INIT_METHOD /\ samp[Len(samp)] >= 0 ->
                    /\ Len(samp) = 2
                    /\ ev = <<LNot(samp[2])>> /\ last_state = samp[2]
             [] OTHER ->
                    ev = <<>> /\ last_state = Bang2(samp[1])

C6_Witness ==
    /\ op = "resume" /\ Policy = ACPI_BUTTON_LID_INIT_OPEN
    /\ samp = <<0>> /\ last_state = 1 /\ ev = <<EvOpen>>
    /\ inp.pre_time < now /\ inp.pre_state = 0 /\ inp.was_init

\* C7: acpi_button_register_driver leaves the value written to the parameter
\* when one was written; otherwise the driver_data of the first entry of
\* dmi_lid_quirks, in table order, that matches the platform; otherwise
\* ACPI_BUTTON_LID_INIT_METHOD.  Resolving a resolved policy again changes
\* nothing.
C7_Resolution ==
    /\ op = "register" =>
        LET plat == Platforms[inp.plat]
            hits == {i \in 1..Len(dmi_lid_quirks) :
                        dmi_matches(dmi_lid_quirks[i], plat)}
        IN IF inp.old # LID_INIT_UNSET THEN lid_init_state = inp.old
           ELSE IF hits # {}
           THEN \E i \in hits :
                    /\ \A j \in hits : i <= j
                    /\ lid_init_state = dmi_lid_quirks[i].driver_data
           ELSE lid_init_state = ACPI_BUTTON_LID_INIT_METHOD
    /\ loaded =>
        \A p \in 1..Len(Platforms) :
            ResolvePolicy(lid_init_state, Platforms[p]) = lid_init_state

\* Registration on a platform that two entries with different policies match.
C7_Witness ==
    /\ op = "register" /\ inp.old = LID_INIT_UNSET
    /\ \E i, j \in 1..Len(dmi_lid_quirks) :
        /\ i < j
        /\ dmi_matches(dmi_lid_quirks[i], Platforms[inp.plat])
        /\ dmi_matches(dmi_lid_quirks[j], Platforms[inp.plat])
        /\ dmi_lid_quirks[i].driver_data # dmi_lid_quirks[j].driver_data
        /\ lid_init_state = dmi_lid_quirks[i].driver_data

\* C8 as stated: once acpi_button_register_driver has resolved the policy, no
\* operation changes lid_init_state.
C8_PolicyImmutable ==
    (loaded /\ op # "register") => lid_init_state = inp.old

\* C8 amended: once the policy is resolved, lid_init_state changes only by a
\* write of one of the four policy names to the parameter, which sets it to
\* the policy named; a rejected write, probe, remove, open, notification,
\* suspend and resume leave it unchanged.
C8_PolicyChangesOnlyByWrite ==
    (loaded /\ op # "register" /\ lid_init_state # inp.old) =>
        /\ op = "param_set"
        /\ inp.ret = 0
        /\ lid_init_state \in 0..(Len(lid_init_state_str) - 1)
        /\ lid_init_state_str[lid_init_state + 1] = inp.val

C8_Witness ==
    /\ loaded /\ op = "param_set" /\ button_exists
    /\ inp.old = ACPI_BUTTON_LID_INIT_METHOD
    /\ lid_init_state = ACPI_BUTTON_LID_INIT_IGNORE

\* C9 as stated: whenever the policy is Disabled no lid device instance
\* exists and no event is reported.
C9_DisabledMeansNoDevice ==
    Policy = ACPI_BUTTON_LID_INIT_DISABLED => (~button_exists /\ ev = <<>>)

\* C9 amended: acpi_button_probe of a lid device under the Disabled policy
\* fails with -ENODEV before a tracker is created and reports nothing, so no
\* instance is created while the policy is Disabled (an instance created
\* under another policy stays, and keeps reporting, when the parameter is
\* written to disabled afterwards).
C9_DisabledProbeCreatesNothing ==
    /\ (op = "probe" /\ Policy = ACPI_BUTTON_LID_INIT_DISABLED) =>
        /\ owner # inp.dev
        /\ button_exists = inp.had_button
        /\ acpi_button_dir = inp.had_button
        /\ inp.ret = -ENODEV
        /\ ev = <<>>
    /\ (Decided /\ Policy = ACPI_BUTTON_LID_INIT_DISABLED) =>
        /\ button_exists
        /\ ev = <<LNot(D.state)>>

C9_Witness ==
    /\ op = "probe" /\ Policy = ACPI_BUTTON_LID_INIT_DISABLED
    /\ loaded /\ ~acpi_disabled /\ ~button_exists /\ inp.ret = -ENODEV

\* C10: a notification that finds lid_state_initialized false reports no
\* event, signals no wakeup, takes no sample and leaves last_state and
\* last_time as they were; and lid_state_initialized turns true only in
\* acpi_lid_initialize_state, which input open and resume run.
C10_DiscardedBeforeInit ==
    /\ (op = "notify" /\ ~inp.was_init) =>
        /\ ev = <<>> /\ seen = <<>> /\ wake = 0
        /\ samp = <<>> /\ dcall = <<>>
        /\ last_state = inp.pre_state /\ last_time = inp.pre_time
        /\ ~lid_state_initialized
    /\ (lid_state_initialized /\ ~inp.was_init) =>
        op \in {"input_open", "resume"}

C10_Witness ==
    /\ op = "notify" /\ ~inp.was_init /\ button_exists
    /\ inp.event = ACPI_BUTTON_NOTIFY_STATUS
    /\ ev = <<>> /\ ~lid_state_initialized

\* ---------------------------------------------------------------- C11
\* C11: when the evaluation of _LID fails in acpi_lid_update_state, on a
\* notification or in the initialization under the method policy,
\* acpi_lid_notify_state is not called, no event is reported, no wakeup is
\* signalled, last_state and last_time stay as acpi_lid_update_state found
\* them, and the error is what acpi_lid_update_state returns.
C11_FailedSampleChangesNothing ==
    /\ (op = "notify" /\ samp = <<-ENODEV>>) =>
        /\ dcall = <<>> /\ ev = <<>> /\ seen = <<>> /\ wake = 0
        /\ sw = inp.pre_sw
        /\ last_state = inp.pre_state /\ last_time = inp.pre_time
        /\ inp.uret = -ENODEV
    /\ (/\ op \in {"input_open", "resume"}
        /\ Policy = ACPI_BUTTON_LID_INIT_METHOD
        /\ Len(samp) = 2 /\ samp[2] < 0) =>
        /\ dcall = <<>> /\ ev = <<>> /\ seen = <<>> /\ wake = 0
        /\ sw = inp.pre_sw
        /\ last_state = Bang2(samp[1]) /\ last_time = now
        /\ inp.uret = -ENODEV

C11_Witness ==
    /\ op = "notify" /\ samp = <<-ENODEV>>
    /\ Policy = ACPI_BUTTON_LID_INIT_METHOD
    /\ inp.pre_state = 0 /\ now > inp.pre_time + lid_report_interval
    /\ ev = <<>> /\ last_time = inp.pre_time

\* ---------------------------------------------------------------- C12
\* C12: a failed evaluation of _LID is never taken for open or closed: a
\* notification whose sample failed leaves last_state as it was, and after an
\* input open or a resume whose sample failed last_state is not a value made
\* from that sample, so unless acpi_lid_notify_state ran afterwards
\* last_state is what the operation found.
C12_FailedSampleNotStored ==
    /\ (op = "notify" /\ samp # <<>> /\ samp[1] < 0) =>
        last_state = inp.pre_state
    /\ (/\ op \in {"input_open", "resume"}
        /\ samp # <<>> /\ samp[1] < 0 /\ ~Decided) =>
        last_state = inp.pre_state

\* ---------------------------------------------------------------- C13
\* C13: a write to the lid_init_state parameter of a string that is none of
\* ignore, open, method, disabled returns -EINVAL and leaves lid_init_state
\* as it was; a write of one of the four names returns 0 and sets
\* lid_init_state to the value of that name.
C13_WriteValidated ==
    op = "param_set" =>
        /\ inp.val = "ignore" =>
            lid_init_state = ACPI_BUTTON_LID_INIT_IGNORE /\ inp.ret = 0
        /\ inp.val = "open" =>
            lid_init_state = ACPI_BUTTON_LID_INIT_OPEN /\ inp.ret = 0
        /\ inp.val = "method" =>
            lid_init_state = ACPI_BUTTON_LID_INIT_METHOD /\ inp.ret = 0
        /\ inp.val = "disabled" =>
            lid_init_state = ACPI_BUTTON_LID_INIT_DISABLED /\ inp.ret = 0
        /\ inp.val \notin {"ignore", "open", "method", "disabled"} =>
            lid_init_state = inp.old /\ inp.ret = -EINVAL

C13_Witness ==
    /\ op = "param_set" /\ inp.val = "bogus" /\ inp.ret = -EINVAL
    /\ loaded /\ lid_init_state = ACPI_BUTTON_LID_INIT_METHOD
    /\ inp.old = ACPI_BUTTON_LID_INIT_METHOD

\* ---------------------------------------------------------------- C14
\* C14: a probe of a second lid device while the driver is bound to one is
\* not an error: unless the policy is disabled or one of its steps fails the
\* probe returns 0, and lid_device, the device acpi_lid_open evaluates, is
\* the device probed last.
C14_SecondLidBinds ==
    (/\ op = "probe" /\ inp.had_button /\ ~inp.fail
     /\ Policy # ACPI_BUTTON_LID_INIT_DISABLED) =>
        /\ inp.ret = 0
        /\ lid_device = inp.dev

\* ---------------------------------------------------------------- C15
\* C15: acpi_button_suspend sets suspended and changes nothing else:
\* last_state, last_time, lid_state_initialized, the input device and the
\* policy stay, and nothing is reported.  A status notification on a device
\* with lid_state_initialized set is processed whatever suspended is: _LID is
\* evaluated, and a good sample is handed to acpi_lid_notify_state with the
\* tracker as the notification found it, a wakeup signalled if it is open.
C15_SuspendOnlySetsFlag ==
    /\ op = "suspend" =>
        /\ suspended
        /\ last_state = inp.pre_state /\ last_time = inp.pre_time
        /\ lid_state_initialized = inp.was_init
        /\ sw = inp.pre_sw /\ lid_init_state = inp.old
        /\ ev = <<>> /\ seen = <<>> /\ samp = <<>> /\ wake = 0
    /\ (/\ op = "notify" /\ inp.was_init
        /\ inp.event = ACPI_BUTTON_NOTIFY_STATUS) =>
        /\ Len(samp) = 1
        /\ samp[1] >= 0 =>
            /\ Decided /\ D.state = samp[1]
            /\ D.last_state = inp.pre_state /\ D.last_time = inp.pre_time
            /\ wake = samp[1]

C15_Witness ==
    /\ op = "notify" /\ suspended /\ inp.was_init
    /\ inp.event = ACPI_BUTTON_NOTIFY_STATUS
    /\ samp = <<1>> /\ ev = <<EvOpen>> /\ wake = 1
    /\ inp.pre_state = 0 /\ last_state = 1

\* ---------------------------------------------------------------- C16
\* C16 as stated: the first input open of a lid device under the ignore
\* policy reports no event, leaves last_state and last_time as they were
\* before it, and sets lid_state_initialized.
C16_FirstOpenKeepsTracker ==
    (op = "input_open" /\ ~inp.was_init /\ Policy = Ignore) =>
        /\ ev = <<>> /\ seen = <<>>
        /\ last_state = inp.pre_state /\ last_time = inp.pre_time
        /\ lid_state_initialized

\* C16 as corrected: the first input open of a lid device under the ignore
\* policy reports no event, calls acpi_lid_notify_state not at all and
\* signals no wakeup, sets lid_state_initialized, and stores the sample it
\* takes in last_state (a failed sample as open) and the time of the open in
\* last_time.
C16_FirstOpenStoresSample ==
    (op = "input_open" /\ ~inp.was_init /\ Policy = Ignore) =>
        /\ ev = <<>> /\ seen = <<>> /\ sw = inp.pre_sw
        /\ dcall = <<>> /\ wake = 0
        /\ Len(samp) = 1
        /\ last_state = (IF samp[1] = 0 THEN 0 ELSE 1)
        /\ last_time = now
        /\ lid_state_initialized

C16_Witness ==
    /\ op = "input_open" /\ ~inp.was_init /\ Policy = Ignore
    /\ samp = <<1>> /\ inp.pre_state = 0 /\ last_state = 1
    /\ inp.pre_time = 0 /\ last_time > 0
    /\ ev = <<>> /\ lid_state_initialized

\* ---------------------------------------------------------------- C17
\* C17: under the ignore policy, with an input device that drops a value
\* equal to the one it holds, a call of acpi_lid_notify_state with a closed
\* state that repeats last_state more than lid_report_interval after
\* last_time makes the consumer see a change to closed as the last value
\* delivered, whatever the input device held before: the device ends closed.
C17_ClosedAlwaysSeen ==
    (/\ Decided /\ Policy = Ignore
     /\ D.state = 0 /\ D.last_state = 0
     /\ now > D.last_time + lid_report_interval) =>
        /\ seen # <<>>
        /\ seen[Len(seen)] = EvClose
        /\ sw = EvClose

C17_Witness ==
    /\ Decided /\ Policy = Ignore
    /\ D.state = 0 /\ D.last_state = 0
    /\ now > D.last_time + lid_report_interval
    /\ inp.pre_sw = EvClose
    /\ seen = <<EvOpen, EvClose>>

\* ---------------------------------------------------------------- C18
\* C18: under a policy other than ignore every call of acpi_lid_notify_state
\* reports exactly one event, the real one for its state, and no complement
\* event, and stores the state in last_state and the time in last_time,
\* whatever the state, the tracker and the time since last_time.
C18_OtherPoliciesAlwaysReport ==
    (Decided /\ Policy # Ignore) =>
        /\ ev = <<LNot(D.state)>>
        /\ last_state = D.state
        /\ last_time = now

C18_Witness ==
    /\ Decided /\ Policy = ACPI_BUTTON_LID_INIT_METHOD
    /\ op = "notify"
    /\ D.state = 0 /\ D.last_state = 0
    /\ now > D.last_time + lid_report_interval
    /\ ev = <<EvClose>> /\ last_time = now

\* ---------------------------------------------------------------- C19
\* C19: while lid_report_interval is not written, a complement event is
\* reported more than lid_report_interval after the complement event before
\* it, over every sequence of notifications, input opens, suspends and
\* resumes: prev_syn is the time of the complement event before this one,
\* kept until an operation finds it more than lid_report_interval old.
C19_ComplementsSpaced ==
    (Len(ev) = 2 /\ inp.prev_syn >= 0) =>
        /\ last_syn = now
        /\ now > inp.prev_syn + lid_report_interval

C19_Witness ==
    /\ Len(ev) = 2 /\ inp.prev_syn >= 0
    /\ lid_report_interval > 0
    /\ now = inp.prev_syn + lid_report_interval + 1

\* ---------------------------------------------------------------- C20
\* C20 as stated: last_state is the state of the latest real event reported,
\* and on a bound lid device last_state changes only in a call of
\* acpi_lid_notify_state.
C20_OnlyDecisionEngineWrites ==
    /\ ev # <<>> => last_state = LNot(ev[Len(ev)])
    /\ (button_exists /\ inp.had_button /\ last_state # inp.pre_state) =>
        Decided

\* C20 as corrected: after an operation that reports a real event
\* last_state is the state of that event, and on a bound lid device
\* last_state changes only in a call of acpi_lid_notify_state or by the
\* sample that input open and resume store in it (a failed sample as open).
C20_DecisionEngineOrSampleWrites ==
    /\ ev # <<>> => last_state = LNot(ev[Len(ev)])
    /\ (button_exists /\ inp.had_button /\ last_state # inp.pre_state) =>
        \/ Decided
        \/ /\ op \in {"input_open", "resume"}
           /\ samp # <<>>
           /\ last_state = (IF samp[1] = 0 THEN 0 ELSE 1)

C20_Witness ==
    /\ op = "resume" /\ ~Decided /\ button_exists /\ inp.had_button
    /\ inp.pre_state = 1 /\ samp = <<0>> /\ last_state = 0
    /\ sw = EvOpen

\* ---------------------------------------------------------------- C21
\* C21: under the open policy an input open or a resume reports exactly one
\* event, open, whatever the sample it took (a failed one included) and
\* whatever the tracker held before, and leaves last_state open and
\* lid_state_initialized set.
C21_OpenPolicyReportsOpen ==
    (op \in {"input_open", "resume"} /\ Policy = ACPI_BUTTON_LID_INIT_OPEN) =>
        /\ Len(samp) = 1
        /\ Decided /\ D.state = 1
        /\ ev = <<EvOpen>>
        /\ sw = EvOpen
        /\ last_state = 1
        /\ lid_state_initialized

C21_Witness ==
    /\ op = "input_open" /\ Policy = ACPI_BUTTON_LID_INIT_OPEN
    /\ samp = <<0>> /\ inp.pre_state = 0 /\ ~inp.was_init
    /\ ev = <<EvOpen>> /\ last_state = 1 /\ lid_state_initialized

\* ---------------------------------------------------------------- C22
\* C22: a wakeup is signalled only by a notification whose sample is open:
\* an input open or a resume never signals one, and neither does a closed
\* or a failed sample.
C22_WakeupOnlyOnOpenNotification ==
    /\ wake = 1 => (op = "notify" /\ samp = <<1>>)
    /\ op \in {"input_open", "resume"} => wake = 0
    /\ (samp # <<>> /\ samp[Len(samp)] <= 0) => wake = 0

C22_Witness ==
    /\ op = "notify" /\ samp = <<1>> /\ wake = 1
    /\ Policy = ACPI_BUTTON_LID_INIT_METHOD /\ suspended

\* ---------------------------------------------------------------- C23
\* C23: acpi_lid_open evaluates _LID of a lid device only while the driver
\* is bound to that device; when the driver is bound to no lid device,
\* after a remove as before the first probe, it evaluates nothing and
\* returns -ENODEV.
C23_QueryOnlyBoundDevice ==
    op = "lid_open" =>
        /\ samp # <<>> => (owner # 0 /\ inp.dev = owner)
        /\ owner = 0 => (samp = <<>> /\ inp.ret = -ENODEV)

\* ---------------------------------------------------------------- C24
\* C24: under the method policy with _LID always evaluating, with
\* notifications one after another and an input open or a resume running
\* between the statements of a notification, whenever no handler is running
\* last_state is the state of the last real event the input device was
\* handed, which is the state the input device holds.
C24_QuiescentTrackerMatchesSink ==
    Quiescent => last_state = LNot(sw)

====
